---- MODULE Spec2Model ----
(***************************************************************************)
(* TwitterIQ: the inverted index of src/indexer.py (InvertedIndex with its *)
(* PostingsList / NumericPostingsList) and the stand-alone postings lists  *)
(* of src/postings_lists.py.                                               *)
(*                                                                         *)
(* Python values are modelled as follows.                                  *)
(*   list / numpy array   a sequence; Python index k is TLA+ index k + 1   *)
(*   dict                 a sequence of [term, pl] records in insertion    *)
(*                        order (the iteration order of a Python dict)     *)
(*   None                 the integer None (identifiers are naturals)      *)
(*   raise                a record whose field raised names the exception  *)
(*   np.empty             a buffer whose cells hold one value drawn from   *)
(*                        Garbage: its contents are unspecified            *)
(***************************************************************************)
EXTENDS Integers, Sequences, FiniteSets, TLC

\* ------------------------------------------------------------------ bounds
MaxDocs == 2
MaxTokens == 2
MaxCalls == 2
MaxIds == 2
MaxGap == 7
MaxId == 3
MaxBatch == 2
MaxPostings == 4
MaxCapacity == 2
MaxVal == 4
MaxLen == 3
MaxN == 3
MaxLines == 3

\* ------------------------------------------------------- program constants
DefaultCapacity == 10
ExpansionRate == 2
LINEAR_PROBES == 9
PERTURB_SHIFT == 5
PySet_MINSIZE == 8

None == -1
Terms == {"a", "b"}
Garbage == {0, 8}

\* ----------------------------------------------------------------- helpers
Range(s) == {s[i] : i \in 1..Len(s)}

SeqsUpTo(S, n) == UNION {[1..k -> S] : k \in 0..n}

Ok(v) == [raised |-> "none", msg |-> "", v |-> v]

Raise(type, msg, v) == [raised |-> type, msg |-> msg, v |-> v]

\* np.int32(x): the value kept in 32 bits, two's complement (one wrap)
INT32_MAX == 2147483647

Int32(x) ==
  IF x > INT32_MAX THEN ((x - INT32_MAX) - INT32_MAX) - 2
  ELSE IF x < (-INT32_MAX) - 1 THEN ((x + INT32_MAX) + INT32_MAX) + 2
  ELSE x

\* np.empty((n,)): n cells of unspecified content, here all g
np_empty(n, g) == [i \in 1..n |-> g]

\* ------------------------------------------------- dict (InvertedIndex base)
Keys(d) == {d[i].term : i \in 1..Len(d)}

Get(d, t) == LET i == CHOOSE j \in 1..Len(d) : d[j].term = t IN d[i].pl

Put(d, t, p) ==
  IF t \in Keys(d)
  THEN [i \in 1..Len(d) |-> IF d[i].term = t THEN [term |-> t, pl |-> p] ELSE d[i]]
  ELSE Append(d, [term |-> t, pl |-> p])

\* ------------------------------------ src/indexer.py: class PostingsList
\* PostingsList.__init__: the postings are a set
gpl_init(postings) == [kind |-> "set", postings |-> Range(postings)]

\* PostingsList.add
gpl_add(p, posting) == [p EXCEPT !.postings = @ \cup {posting}]

\* ----------------------------- src/indexer.py: class NumericPostingsList
\* _extend_array: capacity *= expansion_rate; the new buffer is np.empty
\* and takes the old cells in its first size places
npl_extend_array(p, g) ==
  LET cap == p.capacity * ExpansionRate
  IN [p EXCEPT !.capacity = cap,
               !.postings = [i \in 1..cap |->
                               IF i <= p.size THEN p.postings[i] ELSE g]]

\* add: stores posting - first unless the cell before the write position
\* already holds that value. With size = 0 the cell read is postings[-1].
npl_add(p, posting, g) ==
  LET store(p2, compressed, n) ==
        IF n = 0
        THEN Raise("IndexError", "index out of bounds", p2)
        ELSE IF p2.postings[IF p2.size = 0 THEN n ELSE p2.size] = compressed
        THEN Ok(p2)
        ELSE Ok([p2 EXCEPT !.postings[p2.size + 1] = compressed,
                           !.size = p2.size + 1])
      write(posting_, p2) == store(p2, posting_ - p2.first, Len(p2.postings))
      grow(posting_, p1) ==
        write(posting_, IF p1.size = p1.capacity THEN npl_extend_array(p1, g) ELSE p1)
      begin(posting_) ==
        grow(posting_, IF p.size = 0 THEN [p EXCEPT !.first = posting_] ELSE p)
  IN begin(Int32(posting))

\* PostingsList.update, inherited: add every posting in turn
RECURSIVE npl_update(_, _, _, _)
npl_update(p, postings, i, g) ==
  IF i > Len(postings)
  THEN Ok(p)
  ELSE LET rest(r) ==
             IF r.raised # "none" THEN r ELSE npl_update(r.v, postings, i + 1, g)
       IN rest(npl_add(p, postings[i], g))

\* __init__: size is the number of distinct postings, first is postings[0].
\* With size > capacity the set of postings is passed to compress, which
\* subscripts it from its second element on: a TypeError for a set.
npl_init(postings, capacity, g) ==
  LET fill(size, p) ==
        IF size > capacity
        THEN IF size >= 2
             THEN Raise("TypeError", "'set' object is not subscriptable", p)
             ELSE Ok([p EXCEPT !.postings = <<p.first>>, !.capacity = size])
        ELSE npl_update([p EXCEPT !.postings = np_empty(capacity, g)],
                        postings, 1, g)
      begin(size) ==
        fill(size, [kind |-> "numeric", postings |-> <<>>, size |-> size,
                    capacity |-> capacity,
                    first |-> IF size # 0 THEN postings[1] ELSE None])
  IN begin(Cardinality(Range(postings)))

\* finalize
npl_finalize(p) ==
  [p EXCEPT !.postings = SubSeq(p.postings, 1, p.size), !.capacity = p.size]

\* compress(num_array): self.first, then num_array[i] - self.first
npl_compress(first, num_array) ==
  [i \in 1..Len(num_array) |-> IF i = 1 THEN first ELSE num_array[i] - first]

\* decompress(num_array): self.first, then num_array[i] + self.first
npl_decompress(first, num_array) ==
  [i \in 1..Len(num_array) |-> IF i = 1 THEN first ELSE num_array[i] + first]

\* __str__: the decompressed first size cells
npl_str(p) == npl_decompress(p.first, SubSeq(p.postings, 1, p.size))

\* __getitem__ and the iteration Python derives from it: the raw cells of
\* the buffer, in order, until the index runs off its end
npl_iter(p) == p.postings

\* ------------------- src/postings_lists.py: class NumericPostingsList
\* (dtype np.uint32, which leaves the naturals of the model as they are)

\* compress (static): the first value, then num_array[i] - num_array[i - 1]
pl_compress(num_array) ==
  [i \in 1..Len(num_array) |->
     IF i = 1 THEN num_array[i] ELSE num_array[i] - num_array[i - 1]]

\* decompress (static): the first value, then num_array[i] + num_array[i - 1]
pl_decompress(num_array) ==
  [i \in 1..Len(num_array) |->
     IF i = 1 THEN num_array[i] ELSE num_array[i] + num_array[i - 1]]

\* _extend_array: capacity = int(capacity * expansion_rate)
pl_extend_array(p, g) ==
  LET cap == p.capacity * ExpansionRate
  IN [p EXCEPT !.capacity = cap,
               !.postings = [i \in 1..cap |->
                               IF i <= p.size THEN p.postings[i] ELSE g]]

\* add: the posting itself is stored unless it equals the one added last
pl_add(p, posting, g) ==
  LET store(p1) ==
        IF p1.highest = posting
        THEN Ok(p1)
        ELSE IF p1.size >= Len(p1.postings)
        THEN Raise("IndexError", "index out of bounds", p1)
        ELSE Ok([p1 EXCEPT !.postings[p1.size + 1] = posting,
                           !.highest = posting,
                           !.size = p1.size + 1])
  IN store(IF p.size = p.capacity THEN pl_extend_array(p, g) ELSE p)

\* update: add every posting in turn
RECURSIVE pl_update(_, _, _, _)
pl_update(p, postings, i, g) ==
  IF i > Len(postings)
  THEN Ok(p)
  ELSE LET rest(r) ==
             IF r.raised # "none" THEN r ELSE pl_update(r.v, postings, i + 1, g)
       IN rest(pl_add(p, postings[i], g))

\* __init__: a batch longer than the capacity is stored compressed,
\* a shorter one is added posting by posting
pl_init(postings, capacity, g) ==
  LET p == [kind |-> "numeric", postings |-> <<>>, size |-> 0,
            capacity |-> capacity, highest |-> None]
  IN IF Len(postings) > capacity
     THEN Ok([p EXCEPT !.highest = postings[Len(postings)],
                       !.postings = pl_compress(postings),
                       !.capacity = Len(postings),
                       !.size = Len(postings)])
     ELSE pl_update([p EXCEPT !.postings = np_empty(capacity, g)],
                    postings, 1, g)

\* finalize without the update of capacity
pl_finalize_keeps_capacity(p) ==
  [p EXCEPT !.postings = SubSeq(p.postings, 1, p.size)]

\* finalize
pl_finalize(p) ==
  [p EXCEPT !.postings = SubSeq(p.postings, 1, p.size), !.capacity = p.size]

\* __str__: the decompressed first size cells
pl_str(p) == pl_decompress(SubSeq(p.postings, 1, p.size))

\* ---------------------------------- src/indexer.py: class InvertedIndex
\* An InvertedIndex object: the dict itself (index), the class chosen for
\* the postings lists (numeric), and the two private attributes. has_doc
\* tells whether the attribute __current_doc exists: index() deletes it.

\* __init__ up to its call of index(): keep_db and keep_ids at their
\* default False, so the object has no attribute ids
new_index(numeric_ids) ==
  [index |-> <<>>, numeric |-> numeric_ids, indexing |-> FALSE,
   current_doc |-> None, has_doc |-> TRUE]

\* the value __missing__ returns outside a build: an empty Python list
EmptyList == [kind |-> "list", postings |-> <<>>]

\* __missing__ without the test of the indexing flag
missing_always(self, item, g) ==
  LET enter(p) == Ok([self |-> [self EXCEPT !.index = Put(@, item, p)], ret |-> p])
  IN enter(npl_init(<<self.current_doc>>, DefaultCapacity, g).v)

\* __missing__: while indexing, a new postings list seeded with the
\* current document becomes the entry; otherwise [] and no entry
missing(self, item, g) ==
  IF self.indexing
  THEN IF ~self.has_doc
       THEN Raise("AttributeError", "__current_doc", [self |-> self, ret |-> EmptyList])
       ELSE LET enter(r) ==
                  IF r.raised # "none"
                  THEN Raise(r.raised, r.msg, [self |-> self, ret |-> EmptyList])
                  ELSE Ok([self |-> [self EXCEPT !.index = Put(@, item, r.v)],
                           ret |-> r.v])
            IN enter(IF self.numeric
                     THEN npl_init(<<self.current_doc>>, DefaultCapacity, g)
                     ELSE Ok(gpl_init(<<self.current_doc>>)))
  ELSE Ok([self |-> self, ret |-> EmptyList])

\* self[item]: the entry, or what __missing__ gives
getitem(self, item, g) ==
  IF item \in Keys(self.index)
  THEN Ok([self |-> self, ret |-> Get(self.index, item)])
  ELSE missing(self, item, g)

\* postings_list.add(doc_id) on the object self[token] returned
pl_add_in_place(self, token, p, doc_id, g) ==
  IF p.kind = "list"
  THEN Raise("AttributeError", "'list' object has no attribute 'add'", self)
  ELSE IF p.kind = "set"
  THEN Ok([self EXCEPT !.index = Put(@, token, gpl_add(p, doc_id))])
  ELSE LET stored(r) ==
             IF r.raised # "none"
             THEN Raise(r.raised, r.msg, [self EXCEPT !.index = Put(@, token, r.v)])
             ELSE Ok([self EXCEPT !.index = Put(@, token, r.v)])
       IN stored(npl_add(p, doc_id, g))

\* _index_tokens without the test of the exclude set
RECURSIVE index_tokens_all(_, _, _, _, _, _)
index_tokens_all(self, doc_body, i, doc_id, exclude, gmap) ==
  IF i > Len(doc_body)
  THEN Ok(self)
  ELSE LET rest(a) ==
             IF a.raised # "none"
             THEN a
             ELSE index_tokens_all(a.v, doc_body, i + 1, doc_id, exclude, gmap)
           add(r) ==
             IF r.raised # "none"
             THEN Raise(r.raised, r.msg, r.v.self)
             ELSE rest(pl_add_in_place(r.v.self, doc_body[i], r.v.ret,
                                       doc_id, gmap[doc_body[i]]))
       IN add(getitem([self EXCEPT !.current_doc = doc_id, !.has_doc = TRUE],
                      doc_body[i], gmap[doc_body[i]]))

\* _index_tokens, from token number i on. gmap[t] is the content of the
\* buffers allocated for term t during the call.
RECURSIVE index_tokens(_, _, _, _, _, _)
index_tokens(self, doc_body, i, doc_id, exclude, gmap) ==
  IF i > Len(doc_body)
  THEN Ok(self)
  ELSE LET token == doc_body[i]
       IN IF token \in exclude
          THEN index_tokens(self, doc_body, i + 1, doc_id, exclude, gmap)
          ELSE LET rest(a) ==
                     IF a.raised # "none"
                     THEN a
                     ELSE index_tokens(a.v, doc_body, i + 1, doc_id, exclude, gmap)
                   add(r) ==
                     IF r.raised # "none"
                     THEN Raise(r.raised, r.msg, r.v.self)
                     ELSE rest(pl_add_in_place(r.v.self, token, r.v.ret,
                                               doc_id, gmap[token]))
               IN add(getitem([self EXCEPT !.current_doc = doc_id,
                                           !.has_doc = TRUE],
                              token, gmap[token]))

\* the loop of index() over zip(database, ids), from pair number i on
RECURSIVE index_docs(_, _, _, _, _, _)
index_docs(self, database, ids, i, exclude, gmap) ==
  IF i > Len(database) \/ i > Len(ids)
  THEN Ok(self)
  ELSE LET rest(r) ==
             IF r.raised # "none"
             THEN r
             ELSE index_docs(r.v, database, ids, i + 1, exclude, gmap)
       IN rest(index_tokens(self, database[i], 1, ids[i], exclude, gmap))

\* for postings_list in self.values(): postings_list.finalize()
finalize_all(d) ==
  [i \in 1..Len(d) |-> [term |-> d[i].term, pl |-> npl_finalize(d[i].pl)]]

\* sorted(S) for a finite set of integers
RECURSIVE sorted(_)
sorted(S) ==
  IF S = {}
  THEN <<>>
  ELSE LET m == CHOOSE x \in S : \A y \in S : x <= y
       IN <<m>> \o sorted(S \ {m})

\* collect_ids: the object has no attribute ids, so every postings list is
\* iterated into a set. Iterating a NumericPostingsList gives its raw cells;
\* iterating a PostingsList never ends, its __getitem__ answers every index.
collect_ids(self) ==
  LET d == self.index
  IN IF \E i \in 1..Len(d) : d[i].pl.kind = "set"
     THEN Raise("hang", "iteration of PostingsList does not terminate", <<>>)
     ELSE Ok(sorted(UNION {Range(npl_iter(d[i].pl)) : i \in 1..Len(d)}))

\* ids & other for two Python lists: list does not define the operator
list_and(ids, other) ==
  Raise("TypeError", "unsupported operand type(s) for &: 'list' and 'list'", <<>>)

\* A supplied identifier is a number of halves: IdOf(n) is the integer n,
\* an odd value is a number with a fractional part. np.int32(id_) truncates.
IdOf(n) == 2 * n

np_int32(id_) == id_ \div 2

\* int_id != id_
differs(int_id, id_) == 2 * int_id # id_

\* the identifiers a caller supplies: 0, 1 and 1.5
IdValues == {IdOf(0), IdOf(1), 3}

\* _check_ids without the test for repeated identifiers
check_ids_no_unique(self, ids, database, ensure_numeric) ==
  IF Len(ids) # Len(database)
  THEN Raise("IndexError", "length", <<>>)
  ELSE IF ensure_numeric
  THEN IF \E i \in 1..Len(ids) : differs(np_int32(ids[i]), ids[i])
       THEN Raise("IndexError", "numeric", <<>>)
       ELSE Ok([i \in 1..Len(ids) |-> np_int32(ids[i])])
  ELSE Ok(ids)

\* _check_ids
check_ids(self, ids, database, ensure_numeric) ==
  IF Len(ids) # Len(database)
  THEN Raise("IndexError", "length", <<>>)
  ELSE IF Len(ids) # Cardinality(Range(ids))
  THEN Raise("IndexError", "unique", <<>>)
  ELSE LET unique(both) ==
             IF both.raised # "none"
             THEN Raise(both.raised, both.msg, <<>>)
             ELSE IF Len(both.v) # 0
             THEN Raise("IndexError", "unique", <<>>)
             ELSE IF ensure_numeric
             THEN IF \E i \in 1..Len(ids) : differs(np_int32(ids[i]), ids[i])
                  THEN Raise("IndexError", "numeric", <<>>)
                  ELSE Ok([i \in 1..Len(ids) |-> np_int32(ids[i])])
             ELSE Ok(ids)
           stored(c) == unique(IF c.raised # "none" THEN c ELSE list_and(ids, c.v))
       IN stored(collect_ids(self))

\* range(len(self), len(self) + len(database)): len(self) counts the keys
synthesized_ids(self, database) ==
  [i \in 1..Len(database) |-> Len(self.index) + i - 1]

\* the first statement of index(): the identifiers of the documents
resolve_ids(self, database, ids) ==
  IF ~ids.given
  THEN IF ~self.numeric
       THEN Raise("ValueError", "Index is not numeric and no IDs are provided.", <<>>)
       ELSE Ok(synthesized_ids(self, database))
  ELSE check_ids(self, ids.vals, database, self.numeric)

\* index(): the result carries the object as the call leaves it (self),
\* the identifiers it resolved (ids) and the exception, if any
index_op(self, database, ids, exclude, gmap) ==
  LET leave(s2, ids_) ==
        IF ~s2.has_doc
        THEN [raised |-> "AttributeError", msg |-> "__current_doc",
              self |-> s2, ids |-> ids_]
        ELSE [raised |-> "none", msg |-> "",
              self |-> [s2 EXCEPT !.has_doc = FALSE, !.indexing = FALSE],
              ids |-> ids_]
      finalize(r, ids_) ==
        IF r.raised # "none"
        THEN [raised |-> r.raised, msg |-> r.msg, self |-> r.v, ids |-> ids_]
        ELSE leave(IF r.v.numeric
                   THEN [r.v EXCEPT !.index = finalize_all(@)]
                   ELSE r.v,
                   ids_)
      build(res) ==
        IF res.raised # "none"
        THEN [raised |-> res.raised, msg |-> res.msg, self |-> self, ids |-> <<>>]
        ELSE finalize(index_docs([self EXCEPT !.indexing = TRUE], database,
                                 res.v, 1, exclude, gmap),
                      res.v)
  IN build(resolve_ids(self, database, ids))

\* ------------------------------------- token_count and n_most_common
\* PostingsList.__len__, inherited by NumericPostingsList: len(self.postings),
\* the number of members of the set or the length of the buffer
gpl_len(p) == IF p.kind = "set" THEN Cardinality(p.postings) ELSE Len(p.postings)

\* __gt__ with the comparison turned round
gpl_gt_reversed(p, other) == gpl_len(p) < gpl_len(other)

\* PostingsList.__gt__
gpl_gt(p, other) == gpl_len(p) > gpl_len(other)

\* token_count: sum(map(len, self.values())), from entry i on
RECURSIVE token_count_from(_, _)
token_count_from(d, i) ==
  IF i > Len(d) THEN 0 ELSE gpl_len(d[i].pl) + token_count_from(d, i + 1)

token_count(self) == token_count_from(self.index, 1)

\* a < b for two heap entries (key(elem), order, elem) of distinct terms:
\* the keys are distinct objects, PostingsList has no __lt__, so Python
\* asks the reflected b.key > a.key
heap_lt(a, b) == gpl_gt(b.key, a.key)

\* heapq._siftdown(heap, startpos, pos) with newitem held aside; positions
\* count from 0, heap[pos + 1] is the cell
RECURSIVE siftdown(_, _, _, _)
siftdown(heap, startpos, pos, newitem) ==
  IF pos > startpos /\ heap_lt(newitem, heap[((pos - 1) \div 2) + 1])
  THEN siftdown([heap EXCEPT ![pos + 1] = heap[((pos - 1) \div 2) + 1]],
                startpos, (pos - 1) \div 2, newitem)
  ELSE [heap EXCEPT ![pos + 1] = newitem]

\* the loop of heapq._siftup: the smaller child moves up until a leaf is hit
RECURSIVE siftup_loop(_, _)
siftup_loop(heap, pos) ==
  LET move(childpos) ==
        siftup_loop([heap EXCEPT ![pos + 1] = heap[childpos + 1]], childpos)
  IN IF 2 * pos + 1 >= Len(heap)
     THEN [heap |-> heap, pos |-> pos]
     ELSE move(IF 2 * pos + 2 < Len(heap)
                  /\ ~heap_lt(heap[2 * pos + 2], heap[2 * pos + 3])
               THEN 2 * pos + 2
               ELSE 2 * pos + 1)

\* heapq._siftup(heap, pos)
siftup(heap, pos) ==
  LET settle(r) == siftdown(r.heap, pos, r.pos, heap[pos + 1])
  IN settle(siftup_loop(heap, pos))

\* heapq.heapify: _siftup at n // 2 - 1 down to 0
RECURSIVE heapify_from(_, _)
heapify_from(heap, i) ==
  IF i < 0 THEN heap ELSE heapify_from(siftup(heap, i), i - 1)

heapify(heap) == heapify_from(heap, (Len(heap) \div 2) - 1)

\* heapq.heapreplace: the new heap (the item returned is not used)
heapreplace(heap, item) == siftup([heap EXCEPT ![1] = item], 0)

\* list.sort(reverse=True) and sorted(reverse=True): stable, an entry goes
\* before the first one it is greater than
RECURSIVE sort_reverse_from(_, _, _)
sort_reverse_from(done, items, i) ==
  LET insert(x, k) == SubSeq(done, 1, k) \o <<x>> \o SubSeq(done, k + 1, Len(done))
      place(x) ==
        insert(x, Cardinality({j \in 1..Len(done) :
                                 \A j2 \in 1..j : ~heap_lt(done[j2], x)}))
  IN IF i > Len(items)
     THEN done
     ELSE sort_reverse_from(place(items[i]), items, i + 1)

sort_reverse(items) == sort_reverse_from(<<>>, items, 1)

\* the entries (key(elem), order, elem) of the keys of the dict, in
\* insertion order; order is 0, -1, ... for the first n, then -n, -n-1, ...
heap_entries(d) ==
  [i \in 1..Len(d) |-> [key |-> d[i].pl, order |-> 1 - i, elem |-> d[i].term]]

\* max(it, key=key): the first entry no later entry is greater than
py_max(items) ==
  LET best == CHOOSE i \in 1..Len(items) :
                /\ \A j \in 1..i - 1 : heap_lt(items[j], items[i])
                /\ \A j \in i + 1..Len(items) : ~heap_lt(items[i], items[j])
  IN items[best]

\* the loop of heapq.nlargest over the elements after the first n
RECURSIVE nlargest_loop(_, _, _)
nlargest_loop(result, items, i) ==
  IF i > Len(items)
  THEN result
  ELSE IF heap_lt(result[1], items[i])
  THEN nlargest_loop(heapreplace(result, items[i]), items, i + 1)
  ELSE nlargest_loop(result, items, i + 1)

\* heapq.nlargest(n, self, key=lambda x: self[x])
nlargest(n, items) ==
  LET elems(entries) == [i \in 1..Len(entries) |-> entries[i].elem]
  IN IF n = 1
     THEN IF Len(items) = 0 THEN <<>> ELSE <<py_max(items).elem>>
     ELSE IF n >= Len(items)
     THEN elems(sort_reverse(items))
     ELSE IF n <= 0
     THEN <<>>
     ELSE elems(sort_reverse(nlargest_loop(heapify(SubSeq(items, 1, n)),
                                           items, n + 1)))

\* n_most_common(n)
n_most_common(self, n) == nlargest(n, heap_entries(self.index))

\* ------------------------------------------- Python set of small integers
\* query() builds set(...) & set(...) and lists the result. The order of
\* that list is the slot order of CPython's hash table, so the table is
\* modelled: slots 0..mask, each <<>> (unused) or <<key>>.
pyhash(k) == IF k = -1 THEN -2 ELSE k

RECURSIVE Pow2(_)
Pow2(n) == IF n = 0 THEN 1 ELSE 2 * Pow2(n - 1)

RECURSIVE shr5(_, _)
shr5(x, k) == IF k = 0 \/ x = 0 THEN x ELSE shr5(x \div 32, k - 1)

\* (size_t)hash >> (PERTURB_SHIFT * k), modulo 2^30. A negative hash h,
\* -32 <= h, is 2^64 + h as size_t: 2^(64 - 5k) - 1 after k >= 1 shifts.
perturb_at(hash, k) ==
  IF hash >= 0 THEN shr5(hash, k) % 1073741824
  ELSE IF k = 0 THEN hash % 1073741824
  ELSE IF PERTURB_SHIFT * k <= 34 THEN 1073741823
  ELSE IF PERTURB_SHIFT * k <= 64 THEN Pow2(64 - PERTURB_SHIFT * k) - 1
  ELSE 0

\* the probe sequence of set_add_entry / set_insert_clean from slot i after
\* k perturbations: the slot of key, or the first unused slot on the way
RECURSIVE set_lookup(_, _, _, _, _)
set_lookup(slots, mask, key, i, k) ==
  LET probes == IF i + LINEAR_PROBES <= mask THEN LINEAR_PROBES ELSE 0
      cand == {j \in i..(i + probes) : slots[j + 1] = <<>> \/ slots[j + 1] = <<key>>}
  IN IF cand # {}
     THEN CHOOSE j \in cand : \A j2 \in cand : j <= j2
     ELSE set_lookup(slots, mask, key,
                     (i * 5 + 1 + perturb_at(pyhash(key), k + 1)) % (mask + 1),
                     k + 1)

\* a table of n unused slots
set_new(n) == [mask |-> n - 1, fill |-> 0, slots |-> [i \in 1..n |-> <<>>]]

\* the entry written, without the resize check
set_put(so, key) ==
  LET write(j) ==
        IF so.slots[j + 1] = <<key>>
        THEN so
        ELSE [so EXCEPT !.slots[j + 1] = <<key>>, !.fill = @ + 1]
  IN write(set_lookup(so.slots, so.mask, key, pyhash(key) % (so.mask + 1), 0))

\* set iteration (set_next): the keys in slot order
set_iter(so) ==
  LET occupied(i) == {j \in 1..i : so.slots[j] # <<>>}
      at(n) == CHOOSE i \in 1..Len(so.slots) :
                 so.slots[i] # <<>> /\ Cardinality(occupied(i)) = n
  IN [n \in 1..so.fill |-> so.slots[at(n)][1]]

RECURSIVE set_fill_from(_, _, _)
set_fill_from(so, keys, i) ==
  IF i > Len(keys) THEN so ELSE set_fill_from(set_put(so, keys[i]), keys, i + 1)

RECURSIVE set_newsize(_, _)
set_newsize(n, minused) == IF n <= minused THEN set_newsize(2 * n, minused) ELSE n

\* set_table_resize: the entries re-inserted in slot order
set_table_resize(so, minused) ==
  set_fill_from(set_new(set_newsize(PySet_MINSIZE, minused)), set_iter(so), 1)

\* set_add_entry: the table grows once fill * 5 >= mask * 3
set_add_entry(so, key) ==
  LET grow(s1) ==
        IF s1.fill = so.fill \/ s1.fill * 5 < s1.mask * 3
        THEN s1
        ELSE set_table_resize(s1, s1.fill * 4)
  IN grow(set_put(so, key))

\* set(iterable)
RECURSIVE set_update(_, _, _)
set_update(so, keys, i) ==
  IF i > Len(keys) THEN so ELSE set_update(set_add_entry(so, keys[i]), keys, i + 1)

py_set(keys) == set_update(set_new(PySet_MINSIZE), keys, 1)

set_keys(so) == Range(set_iter(so))

\* so & other (set_intersection): the smaller operand is iterated, "other"
\* when the sizes are equal, and its keys found in the larger one are added
\* to a new set
set_intersection(so, other) ==
  LET common(small, big) ==
        SelectSeq(set_iter(small), LAMBDA k : k \in set_keys(big))
  IN set_update(set_new(PySet_MINSIZE),
                IF other.fill > so.fill THEN common(so, other) ELSE common(other, so),
                1)

\* list(set)
py_list(so) == set_iter(so)

\* -------------------------------------------------- InvertedIndex.query
NoTerm == "<None>"

\* what iterating a returned object yields: nothing for [], the raw cells
\* for a NumericPostingsList
iterate(ret) == IF ret.kind = "numeric" THEN npl_iter(ret) ELSE <<>>

\* query(term1, term2): the result carries the object after the call
\* (self) and the identifiers the returned object yields (result)
query(self, term1, term2, g) ==
  LET both(r1, r2) ==
        IF r2.raised # "none"
        THEN [raised |-> r2.raised, self |-> r2.v.self, result |-> <<>>]
        ELSE IF r2.v.ret.kind = "set"
        THEN [raised |-> "hang", self |-> r2.v.self, result |-> <<>>]
        ELSE [raised |-> "none", self |-> r2.v.self,
              result |-> py_list(set_intersection(
                                   py_set(iterate(r1.v.ret)),
                                   py_set(iterate(r2.v.ret))))]
      one(r1) ==
        IF r1.raised # "none"
        THEN [raised |-> r1.raised, self |-> r1.v.self, result |-> <<>>]
        ELSE IF r1.v.ret.kind = "set"
        THEN [raised |-> "hang", self |-> r1.v.self, result |-> <<>>]
        ELSE IF term2 = NoTerm
        THEN [raised |-> "none", self |-> r1.v.self, result |-> iterate(r1.v.ret)]
        ELSE both(r1, getitem(r1.v.self, term2, g))
  IN one(getitem(self, term1, g))

\* ============================================================ state
\* self, phase, calls, expected, outcome: one InvertedIndex
\*   phase     "new" before the constructor runs, "live" once it has
\*             returned, "dead" when it raised (no object exists)
\*   calls     number of index() calls made, the constructor's included
\*   expected  the (identifier, token) pairs of the documents indexed so
\*             far whose token was not excluded
\*   outcome   the last call: its arguments and what it returned or raised
\* list, added, listop: one NumericPostingsList used on its own
\*   list      the class it is an instance of (module), the object (obj) and
\*             the length of the batch __init__ was given (batch); module is
\*             "none" before construction, "dead" when __init__ raised
\*   added     the postings passed to __init__ and to the calls of add that
\*             returned, in call order
\*   listop    the last call on the list
\* codec: one round trip through compress and decompress
\* file, post_dict, all_postings, heap: one call of index(filename)
\*   file          how far the call is (status "open", "raised", "returned")
\*                 and the number of lines read
\*   post_dict     the dict: term -> [token, frequency, postings], postings
\*                 being the address of a list object
\*   all_postings  the list of the addresses appended to it
\*   heap          the list objects by address: heap[a] is the content of the
\*                 list at address a
VARIABLES self, phase, calls, expected, outcome, list, added, listop, codec,
          file, post_dict, all_postings, heap

ivars == <<self, phase, calls, expected, outcome>>

lvars == <<list, added, listop>>

fvars == <<file, post_dict, all_postings, heap>>

vars == <<self, phase, calls, expected, outcome, list, added, listop, codec,
          file, post_dict, all_postings, heap>>

Docs == SeqsUpTo(Terms, MaxTokens)

Databases == SeqsUpTo(Docs, MaxDocs)

Excludes == {{}, {"b"}}

GarbageMaps == [Terms -> Garbage]

NoIds == [given |-> FALSE, vals |-> <<>>]

IdsArgs == {NoIds} \cup {[given |-> TRUE, vals |-> v] : v \in SeqsUpTo(IdValues, MaxIds)}

QueryTerms == Terms

NoCall ==
  [op |-> "none", raised |-> "none", msg |-> "", ndocs |-> 0, ids |-> NoIds,
   resolved |-> <<>>, term1 |-> NoTerm, term2 |-> NoTerm, result |-> <<>>,
   n |-> 0, terms |-> <<>>, count |-> 0, exclude |-> {}, skipped |-> 0]

\* the postings a build owes: every non-excluded token of every document,
\* with the identifier zip() pairs the document with
Owed(database, ids, exclude) ==
  {<<ids[i], database[i][j]>> : <<i, j>> \in
     {x \in (1..Len(database)) \X (1..MaxTokens + 1) :
        /\ x[1] <= Len(ids)
        /\ x[2] <= Len(database[x[1]])
        /\ database[x[1]][x[2]] \notin exclude}}

\* the tokens a build skips: the excluded tokens of the documents zip()
\* pairs with an identifier, by position
Skipped(database, ids, exclude) ==
  {x \in (1..Len(database)) \X (1..MaxTokens + 1) :
     /\ x[1] <= Len(ids)
     /\ x[2] <= Len(database[x[1]])
     /\ database[x[1]][x[2]] \in exclude}

NoList == [module |-> "none", obj |-> EmptyList, batch |-> 0]

NoListOp == [op |-> "none", raised |-> "none", arg |-> None, before |-> <<>>,
             capacity |-> 0, size |-> 0]

NoCodec == [module |-> "none", first |-> None, s |-> <<>>, c |-> <<>>,
            d |-> <<>>, stage |-> "none"]

InitIndex ==
  /\ self = new_index(TRUE)
  /\ phase = "new"
  /\ calls = 0
  /\ expected = {}
  /\ outcome = NoCall

InitList == list = NoList /\ added = <<>> /\ listop = NoListOp

\* index(filename) after its first two statements
InitFile ==
  /\ file = [status |-> "open", nlines |-> 0, raised |-> "none"]
  /\ post_dict = <<>>
  /\ all_postings = <<>>
  /\ heap = <<>>

Init == InitIndex /\ InitList /\ codec = NoCodec /\ InitFile

\* the object index() runs on: a fresh one for the constructor's call
Receiver(numeric_ids) == IF phase = "new" THEN new_index(numeric_ids) ELSE self

ClassChoices == IF phase = "new" THEN BOOLEAN ELSE {self.numeric}

\* index(database, ids, exclude) raises while resolving the identifiers,
\* before it reads exclude. In phase "new" the call is the constructor's.
IndexRejected(numeric_ids, database, ids) ==
  /\ phase \in {"new", "live"}
  /\ calls < MaxCalls
  /\ resolve_ids(Receiver(numeric_ids), database, ids).raised # "none"
  /\ \E r \in {index_op(Receiver(numeric_ids), database, ids, {},
                        [t \in Terms |-> 0])} :
       /\ self' = r.self
       /\ phase' = IF phase = "new" THEN "dead" ELSE phase
       /\ calls' = calls + 1
       /\ expected' = expected
       /\ outcome' = [NoCall EXCEPT !.op = "index", !.raised = r.raised,
                                    !.msg = r.msg, !.ndocs = Len(database),
                                    !.ids = ids]
  /\ UNCHANGED <<lvars, codec, fvars>>

\* index(database, ids, exclude) with the identifiers resolved: the build
\* runs, every list is finalized, and the call returns or raises at del
IndexRuns(numeric_ids, database, ids) ==
  /\ phase \in {"new", "live"}
  /\ calls < MaxCalls
  /\ resolve_ids(Receiver(numeric_ids), database, ids).raised = "none"
  /\ \E exclude \in Excludes, gmap \in GarbageMaps :
       \E r \in {index_op(Receiver(numeric_ids), database, ids, exclude, gmap)} :
          /\ self' = r.self
          /\ phase' = IF phase = "new" /\ r.raised # "none" THEN "dead" ELSE "live"
          /\ calls' = calls + 1
          /\ expected' = expected \cup Owed(database, r.ids, exclude)
          /\ outcome' = [NoCall EXCEPT !.op = "index", !.raised = r.raised,
                                       !.msg = r.msg, !.ndocs = Len(database),
                                       !.ids = ids, !.resolved = r.ids,
                                       !.exclude = exclude,
                                       !.skipped = Cardinality(
                                          Skipped(database, r.ids, exclude))]
  /\ UNCHANGED <<lvars, codec, fvars>>

\* query(term1) or query(term1, term2)
Query(term1, term2, g) ==
  /\ phase = "live"
  /\ \E r \in {query(self, term1, term2, g)} :
       /\ self' = r.self
       /\ outcome' = [NoCall EXCEPT !.op = "query", !.raised = r.raised,
                                    !.term1 = term1, !.term2 = term2,
                                    !.result = r.result]
  /\ UNCHANGED <<phase, calls, expected, lvars, codec, fvars>>

Next ==
  \/ \E n \in ClassChoices, database \in Databases, ids \in IdsArgs :
       IndexRejected(n, database, ids)
  \/ \E n \in ClassChoices, database \in Databases, ids \in IdsArgs :
       IndexRuns(n, database, ids)
  \/ \E term1 \in QueryTerms, term2 \in QueryTerms \cup {NoTerm}, g \in Garbage :
       Query(term1, term2, g)

Spec == Init /\ [][Next]_vars

\* The same index built once, by the constructor, over a longer collection:
\* a first document, up to MaxGap empty documents, a last document.
SparseDatabases ==
  {(<<d1>> \o [i \in 1..k |-> <<>>]) \o <<d2>> :
     <<d1, d2, k>> \in Docs \X Docs \X (0..MaxGap)}

ConstructSparse(database) == calls = 0 /\ IndexRuns(TRUE, database, NoIds)

NextSparse ==
  \/ \E database \in SparseDatabases : ConstructSparse(database)
  \/ \E term1 \in QueryTerms, term2 \in QueryTerms \cup {NoTerm}, g \in Garbage :
       Query(term1, term2, g)

SpecSparse == Init /\ [][NextSparse]_vars

\* ------------------------------ one build, then the statistics methods
\* The documents are drawn from three terms, so that n_most_common meets
\* every branch of heapq.nlargest.
Vocabulary == {"a", "b", "c"}

WideDatabases == SeqsUpTo(SeqsUpTo(Vocabulary, MaxTokens), MaxDocs)

\* InvertedIndex(database, exclude=exclude)
Build(database, exclude, gmap) ==
  /\ phase = "new"
  /\ \E r \in {index_op(new_index(TRUE), database, NoIds, exclude, gmap)} :
       /\ self' = r.self
       /\ phase' = IF r.raised # "none" THEN "dead" ELSE "live"
       /\ calls' = calls + 1
       /\ expected' = Owed(database, r.ids, exclude)
       /\ outcome' = [NoCall EXCEPT !.op = "index", !.raised = r.raised,
                                    !.msg = r.msg, !.ndocs = Len(database),
                                    !.resolved = r.ids, !.exclude = exclude,
                                    !.skipped = Cardinality(
                                       Skipped(database, r.ids, exclude))]
  /\ UNCHANGED <<lvars, codec, fvars>>

\* token_count()
TokenCount ==
  /\ phase = "live"
  /\ outcome' = [NoCall EXCEPT !.op = "token_count", !.count = token_count(self)]
  /\ UNCHANGED <<self, phase, calls, expected, lvars, codec, fvars>>

\* n_most_common(n)
NMostCommon(n) ==
  /\ phase = "live"
  /\ outcome' = [NoCall EXCEPT !.op = "n_most_common", !.n = n,
                               !.terms = n_most_common(self, n)]
  /\ UNCHANGED <<self, phase, calls, expected, lvars, codec, fvars>>

NextStats ==
  \/ \E database \in WideDatabases, exclude \in Excludes,
        gmap \in [Vocabulary -> Garbage] : Build(database, exclude, gmap)
  \/ TokenCount
  \/ \E n \in 0..MaxN : NMostCommon(n)

SpecStats == Init /\ [][NextStats]_vars

\* ------------------------------------------- a postings list on its own
Modules == {"postings_lists", "indexer"}

list_init(module, postings, capacity, g) ==
  IF module = "indexer"
  THEN npl_init(postings, capacity, g)
  ELSE pl_init(postings, capacity, g)

list_add(module, p, posting, g) ==
  IF module = "indexer" THEN npl_add(p, posting, g) ELSE pl_add(p, posting, g)

list_finalize(module, p) ==
  IF module = "indexer" THEN npl_finalize(p) ELSE pl_finalize(p)

list_str(module, p) == IF module = "indexer" THEN npl_str(p) ELSE pl_str(p)

Alive == list.module \in Modules

NonDecreasing(s) == \A i \in 1..Len(s) - 1 : s[i] <= s[i + 1]

StrictlyAscending(s) == \A i \in 1..Len(s) - 1 : s[i] < s[i + 1]

Batches == {b \in SeqsUpTo(0..MaxId, MaxBatch) : NonDecreasing(b)}

\* NumericPostingsList(postings, capacity)
ListConstruct(module, postings, capacity, g) ==
  LET r == list_init(module, postings, capacity, g)
  IN /\ list.module = "none"
     /\ list' = [module |-> IF r.raised = "none" THEN module ELSE "dead",
                 obj |-> r.v, batch |-> Len(postings)]
     /\ added' = postings
     /\ listop' = [NoListOp EXCEPT !.op = "init", !.raised = r.raised,
                                   !.capacity = capacity]
     /\ UNCHANGED <<ivars, codec, fvars>>

\* add(posting)
ListAdd(posting, g) ==
  LET r == list_add(list.module, list.obj, posting, g)
  IN /\ Alive
     /\ Len(added) < MaxPostings
     /\ list' = [list EXCEPT !.obj = r.v]
     /\ added' = IF r.raised = "none" THEN Append(added, posting) ELSE added
     /\ listop' = [op |-> "add", raised |-> r.raised, arg |-> posting,
                   before |-> list_str(list.module, list.obj),
                   capacity |-> list.obj.capacity, size |-> list.obj.size]
     /\ UNCHANGED <<ivars, codec, fvars>>

\* finalize()
ListFinalize ==
  /\ Alive
  /\ list' = [list EXCEPT !.obj = list_finalize(list.module, list.obj)]
  /\ listop' = [op |-> "finalize", raised |-> "none", arg |-> None,
                before |-> list_str(list.module, list.obj),
                capacity |-> list.obj.capacity, size |-> list.obj.size]
  /\ UNCHANGED <<added, ivars, codec, fvars>>

NextList ==
  \/ \E module \in Modules, postings \in Batches, capacity \in 0..MaxCapacity,
        g \in Garbage : ListConstruct(module, postings, capacity, g)
  \/ \E posting \in 0..MaxId, g \in Garbage : ListAdd(posting, g)
  \/ ListFinalize

SpecList == Init /\ [][NextList]_vars

\* --------------------------------------------- compress and decompress
\* The methods of src/indexer.py read self.first: the list they are called
\* on holds the sequence, so first is its first element.
CodecInputs ==
  {[NoCodec EXCEPT !.module = m, !.s = s, !.stage = "input",
                   !.first = IF Len(s) = 0 THEN None ELSE s[1]] :
     <<m, s>> \in Modules \X {x \in SeqsUpTo(0..MaxVal, MaxLen) : StrictlyAscending(x)}}

compress(module, first, num_array) ==
  IF module = "indexer" THEN npl_compress(first, num_array) ELSE pl_compress(num_array)

decompress(module, first, num_array) ==
  IF module = "indexer" THEN npl_decompress(first, num_array) ELSE pl_decompress(num_array)

InitCodec == InitIndex /\ InitList /\ codec \in CodecInputs /\ InitFile

Compress ==
  /\ codec.stage = "input"
  /\ codec' = [codec EXCEPT !.c = compress(codec.module, codec.first, codec.s),
                            !.stage = "compressed"]
  /\ UNCHANGED <<ivars, lvars, fvars>>

Decompress ==
  /\ codec.stage = "compressed"
  /\ codec' = [codec EXCEPT !.d = decompress(codec.module, codec.first, codec.c),
                            !.stage = "done"]
  /\ UNCHANGED <<ivars, lvars, fvars>>

NextCodec == Compress \/ Decompress

SpecCodec == InitCodec /\ [][NextCodec]_vars

\* ------------------------------------ src/index.py: index(filename)
\* A line is the sequence of its fields, what doc.split() gives. The tweet
\* id is the text of field 3, the tokens are the fields from 5 on.
IdFields == {"3", "12", "x"}

\* int(text) for the texts of IdFields
py_int(text) ==
  IF text = "3" THEN Ok(3)
  ELSE IF text = "12" THEN Ok(12)
  ELSE Raise("ValueError", "invalid literal for int() with base 10", 0)

\* the lines of a file: the empty line, lines cut short after the id, and
\* lines with up to MaxTokens tokens
FileLines ==
  {<<>>, <<"user", "date">>}
    \cup {<<"user", "date", "time", id>> : id \in IdFields}
    \cup {<<"user", "date", "time", x[1], "lang">> \o x[2] :
            x \in IdFields \X SeqsUpTo(Terms, MaxTokens)}

\* the body of `for token in tweet_content` without the membership test
index_token_unchecked(st, token, tweet_id) ==
  IF token \in Keys(st.post_dict)
  THEN LET grow(current) ==
             [st EXCEPT !.heap[current.postings] = Append(@, tweet_id),
                        !.post_dict = Put(@, token,
                                          [current EXCEPT !.freq = @ + 1])]
       IN grow(Get(st.post_dict, token))
  ELSE LET enter(ap) ==
             [post_dict |-> Put(st.post_dict, token,
                                [token |-> token, freq |-> 1,
                                 postings |-> ap[Len(ap)]]),
              all_postings |-> ap,
              heap |-> Append(st.heap, <<tweet_id>>)]
       IN enter(Append(st.all_postings, Len(st.heap) + 1))

\* the body of `for token in tweet_content`: st holds post_dict,
\* all_postings and the list objects
index_token(st, token, tweet_id) ==
  IF token \in Keys(st.post_dict)
  THEN LET grow(current) ==
             IF tweet_id \notin Range(st.heap[current.postings])
             THEN [st EXCEPT !.heap[current.postings] = Append(@, tweet_id),
                             !.post_dict = Put(@, token,
                                               [current EXCEPT !.freq = @ + 1])]
             ELSE st
       IN grow(Get(st.post_dict, token))
  ELSE LET enter(ap) ==
             [post_dict |-> Put(st.post_dict, token,
                                [token |-> token, freq |-> 1,
                                 postings |-> ap[Len(ap)]]),
              all_postings |-> ap,
              heap |-> Append(st.heap, <<tweet_id>>)]
       IN enter(Append(st.all_postings, Len(st.heap) + 1))

\* for token in tweet_content, from token number i on
RECURSIVE index_content(_, _, _, _)
index_content(st, tweet_content, i, tweet_id) ==
  IF i > Len(tweet_content)
  THEN st
  ELSE index_content(index_token(st, tweet_content[i], tweet_id),
                     tweet_content, i + 1, tweet_id)

\* the body of `for doc in f` for a line split into fields
index_line(st, tweet) ==
  LET read(tweet_id) ==
        IF tweet_id.raised # "none"
        THEN Raise(tweet_id.raised, tweet_id.msg, st)
        ELSE Ok(index_content(st, SubSeq(tweet, 6, Len(tweet)), 1, tweet_id.v))
  IN IF Len(tweet) < 4
     THEN Raise("IndexError", "list index out of range", st)
     ELSE read(py_int(tweet[4]))

\* one more line of the file is read and processed
ReadLine(tweet) ==
  /\ file.status = "open"
  /\ file.nlines < MaxLines
  /\ \E r \in {index_line([post_dict |-> post_dict, all_postings |-> all_postings,
                            heap |-> heap], tweet)} :
       /\ post_dict' = r.v.post_dict
       /\ all_postings' = r.v.all_postings
       /\ heap' = r.v.heap
       /\ file' = [status |-> IF r.raised = "none" THEN "open" ELSE "raised",
                   nlines |-> file.nlines + 1, raised |-> r.raised]
  /\ UNCHANGED <<ivars, lvars, codec>>

\* the file has ended: return post_dict, all_postings
Return ==
  /\ file.status = "open"
  /\ file' = [file EXCEPT !.status = "returned"]
  /\ UNCHANGED <<post_dict, all_postings, heap, ivars, lvars, codec>>

NextFile == (\E tweet \in FileLines : ReadLine(tweet)) \/ Return

SpecFile == Init /\ [][NextFile]_vars

\* ============================================================ claims
Repeats(s) == Len(s) # Cardinality(Range(s))

NotRepresentable(ids) == \E i \in 1..Len(ids) : differs(np_int32(ids[i]), ids[i])

\* the documents of the index contain token t: their identifiers
DocsWith(t) == {pr[1] : pr \in {x \in expected : x[2] = t}}

\* the constructor's build has completed and no other build was made
BuiltOnce == phase = "live" /\ calls = 1

\* C1: after the build, every document identifier d is among the
\* identifiers query(t) returns, for every non-excluded token t of the
\* document.
C1_BuiltPostingsFound ==
  BuiltOnce =>
    \A pr \in expected : pr[1] \in Range(query(self, pr[2], NoTerm, 0).result)

\* C2: after adds made in ascending order, from construction on, the
\* decompressed first size entries are the distinct identifiers added, in
\* ascending order, each once.
C2_DecompressGivesAdded ==
  (Alive /\ list.batch = 0 /\ NonDecreasing(added)) =>
    list_str(list.module, list.obj) = sorted(Range(added))

\* C3: decompress(compress(s)) = s for every strictly ascending s.
C3_RoundTrip == codec.stage = "done" => codec.d = codec.s

\* C4: size <= capacity after construction and after every add, growth
\* and finalize; right after finalize(), capacity = size and the
\* decompressed contents are those from before it.
C4_CapacityInvariant ==
  Alive =>
    /\ list.obj.size <= list.obj.capacity
    /\ listop.op = "finalize" =>
         /\ list.obj.capacity = list.obj.size
         /\ list_str(list.module, list.obj) = listop.before

C4_Witness ==
  /\ Alive
  /\ listop.op = "finalize"
  /\ list.obj.size >= 2
  /\ listop.capacity > list.obj.size

\* C5: in the frozen phase, query(term) for a term that is no key of the
\* index returns an empty result and leaves the index as it was.
C5_FrozenQueryOfUnseenTerm ==
  [][(/\ phase = "live"
      /\ ~self.indexing
      /\ outcome'.op = "query"
      /\ outcome'.term2 = NoTerm
      /\ outcome'.term1 \notin Keys(self.index))
     => (/\ outcome'.raised = "none"
         /\ outcome'.result = <<>>
         /\ self' = self)]_vars

C5_Witness ==
  /\ outcome.op = "query"
  /\ outcome.term2 = NoTerm
  /\ outcome.term1 \notin Keys(self.index)
  /\ ~self.indexing
  /\ self.index # <<>>
  /\ outcome.result = <<>>

\* the defects of identifier resolution C6 lists, for a call of index()
\* with ndocs documents on an index of the given class
ResolutionDefect(ndocs, ids, numeric) ==
  IF ids.given
  THEN \/ Len(ids.vals) # ndocs
       \/ Repeats(ids.vals)
       \/ numeric /\ NotRepresentable(ids.vals)
  ELSE ~numeric

\* C6: a call of index() whose identifier resolution fails raises, and the
\* term-to-postings mapping is what it was before the call.
C6_FailedResolutionChangesNothing ==
  [][(/\ outcome'.op = "index"
      /\ calls' = calls + 1
      /\ ResolutionDefect(outcome'.ndocs, outcome'.ids, self'.numeric))
     => (/\ outcome'.raised # "none"
         /\ self'.index = self.index
         /\ self'.indexing = self.indexing)]_vars

C6_Witness ==
  /\ outcome.op = "index"
  /\ outcome.ids.given
  /\ Repeats(outcome.ids.vals)
  /\ Len(outcome.ids.vals) = outcome.ndocs
  /\ outcome.raised = "IndexError"
  /\ self.index # <<>>

\* C7: the validator answers each defect with its own error kind: a wrong
\* length with "length" (SizeMismatch), a repeated identifier with "unique"
\* (DuplicateIdentifier), a value that does not survive np.int32 with
\* "numeric" (NonNumericIdentifier).
C7_ErrorKindPerDefect ==
  (outcome.op = "index" /\ outcome.ids.given) =>
    LET ids == outcome.ids.vals
    IN /\ Len(ids) # outcome.ndocs
            => outcome.raised = "IndexError" /\ outcome.msg = "length"
       /\ (Len(ids) = outcome.ndocs /\ Repeats(ids))
            => outcome.raised = "IndexError" /\ outcome.msg = "unique"
       /\ (/\ Len(ids) = outcome.ndocs
           /\ ~Repeats(ids)
           /\ self.numeric
           /\ NotRepresentable(ids))
            => outcome.raised = "IndexError" /\ outcome.msg = "numeric"

\* C8: identifiers of the right length, pairwise unique and (in numeric
\* mode) representable are accepted, and resolved one-to-one in the order
\* of the documents.
C8_ValidIdsAccepted ==
  (/\ outcome.op = "index"
   /\ outcome.ids.given
   /\ Len(outcome.ids.vals) = outcome.ndocs
   /\ ~Repeats(outcome.ids.vals)
   /\ self.numeric => ~NotRepresentable(outcome.ids.vals))
  => /\ outcome.raised \in {"none", "AttributeError"}
     /\ Len(outcome.resolved) = outcome.ndocs
     /\ \A i \in 1..outcome.ndocs :
          outcome.resolved[i] = IF self.numeric
                                THEN np_int32(outcome.ids.vals[i])
                                ELSE outcome.ids.vals[i]

\* C9: after the build, query(t1, t2) returns exactly the identifiers of
\* the documents that contain both terms, none of them twice.
C9_IntersectionIsExact ==
  BuiltOnce =>
    \A t1 \in Terms, t2 \in Terms :
      LET r == query(self, t1, t2, 0).result
      IN Range(r) = DocsWith(t1) \cap DocsWith(t2) /\ ~Repeats(r)

\* C10: query(a, b) and query(b, a) return the same result, for every pair
\* of terms, present in the index or not.
C10_QueryCommutes ==
  phase = "live" =>
    \A a \in QueryTerms, b \in QueryTerms :
      query(self, a, b, 0).result = query(self, b, a, 0).result

\* the logical sizes of the postings lists, summed from entry i on
RECURSIVE SizeSum(_, _)
SizeSum(d, i) == IF i > Len(d) THEN 0 ELSE d[i].pl.size + SizeSum(d, i + 1)

\* C11: after the build, token_count() is the sum of the logical sizes of
\* the postings lists, and that is the number of distinct (term, document
\* identifier) pairs with the term a non-excluded token of the document.
C11_TokenCountIsPairs ==
  (BuiltOnce /\ outcome.op = "token_count") =>
    /\ outcome.count = SizeSum(self.index, 1)
    /\ outcome.count = Cardinality(expected)

\* the logical size of the postings list of term t
SizeOf(t) == Get(self.index, t).size

\* C12: after the build, n_most_common(n) returns min(n, number of terms)
\* distinct terms of the index, ordered by non-increasing postings-list
\* size, and no term left out has a strictly larger postings list than a
\* term returned.
C12_MostCommonAreLargest ==
  (BuiltOnce /\ outcome.op = "n_most_common") =>
    LET r == outcome.terms
    IN /\ Len(r) = IF outcome.n < Len(self.index) THEN outcome.n ELSE Len(self.index)
       /\ ~Repeats(r)
       /\ Range(r) \subseteq Keys(self.index)
       /\ \A i \in 1..Len(r) - 1 : SizeOf(r[i]) >= SizeOf(r[i + 1])
       /\ \A t \in Keys(self.index) \ Range(r), u \in Range(r) :
            SizeOf(t) <= SizeOf(u)

\* two of three terms asked for, the first term of the index the smallest
C12_Witness ==
  /\ BuiltOnce
  /\ outcome.op = "n_most_common"
  /\ outcome.n = 2
  /\ Len(self.index) = 3
  /\ Len(outcome.terms) = 2
  /\ self.index[1].pl.size < self.index[2].pl.size
  /\ self.index[2].pl.size <= self.index[3].pl.size
  /\ self.index[1].term \notin Range(outcome.terms)

\* the last two adds that returned, when both were calls of add
LastAdded == added[Len(added)]

BeforeLastAdded == added[Len(added) - 1]

\* C13: on a NumericPostingsList, add(x) right after an add(x) that
\* returned leaves size and contents as they were; add(x) after add(x) and
\* then add(y), y different from x, returns and makes size one larger.
C13_OnlyAdjacentRepeatsCollapse ==
  [][(/\ Alive
      /\ listop.op = "add"
      /\ listop.raised = "none"
      /\ listop'.op = "add")
     => (/\ listop'.arg = listop.arg
            => /\ listop'.raised = "none"
               /\ list'.obj.size = list.obj.size
               /\ list_str(list.module, list'.obj) = list_str(list.module, list.obj)
         /\ (/\ Len(added) - list.batch >= 2
             /\ LastAdded = listop.arg
             /\ BeforeLastAdded = listop'.arg
             /\ listop'.arg # listop.arg)
            => /\ listop'.raised = "none"
               /\ list'.obj.size = list.obj.size + 1)]_vars

\* C14: add(id) with id smaller than the identifier added last fails with
\* InvalidAppendOrder and stores nothing: size and the stored entries stay
\* as they were.
C14_OutOfOrderAddRejected ==
  [][(/\ Alive
      /\ listop'.op = "add"
      /\ Len(added) >= 1
      /\ listop'.arg < LastAdded)
     => (/\ listop'.raised = "InvalidAppendOrder"
         /\ list'.obj.size = list.obj.size
         /\ list_str(list.module, list'.obj) = list_str(list.module, list.obj))]_vars

\* C15: an add that finds the buffer full (size = capacity) grows it: the
\* capacity becomes strictly larger, at least the old capacity times the
\* expansion rate, the first size stored entries stay as they were, and the
\* add succeeds. For every capacity construction, growth and finalize reach.
C15_GrowthMakesRoom ==
  [][(/\ Alive
      /\ listop'.op = "add"
      /\ list.obj.size = list.obj.capacity)
     => (/\ listop'.raised = "none"
         /\ list'.obj.capacity > list.obj.capacity
         /\ list'.obj.capacity >= list.obj.capacity * ExpansionRate
         /\ list'.obj.size \in {list.obj.size, list.obj.size + 1}
         /\ SubSeq(list'.obj.postings, 1, list.obj.size)
              = SubSeq(list.obj.postings, 1, list.obj.size))]_vars

\* the list the constructor has just built came through the bulk path
BuiltInBulk ==
  /\ Alive
  /\ listop.op = "init"
  /\ list.batch > listop.capacity

\* C16: for a strictly ascending batch, the list built through the bulk
\* path (batch longer than the capacity) and the list built from the same
\* batch by repeated add (capacity at least the length of the batch) have
\* the same size and the same decompressed contents, and a later add of a
\* larger identifier gives the same size and contents on both.
C16_BulkEqualsRepeatedAdd ==
  (BuiltInBulk /\ StrictlyAscending(added)) =>
    \A capacity \in list.batch..DefaultCapacity, g \in Garbage :
      LET m == list.module
          t == list_init(m, added, capacity, g)
          same(p, q) == p.size = q.size /\ list_str(m, p) = list_str(m, q)
          same_add(a, b) == a.raised = b.raised /\ same(a.v, b.v)
      IN /\ t.raised = "none"
         /\ same(list.obj, t.v)
         /\ \A x \in LastAdded + 1..MaxId + 1 :
              same_add(list_add(m, list.obj, x, g), list_add(m, t.v, x, g))

\* the entry of term t in an index: none, or its postings list
Entry(d, t) == IF t \in Keys(d) THEN <<Get(d, t)>> ELSE <<>>

\* C17: a token in the exclude set is never indexed: a build creates no
\* entry for an excluded term and changes no postings list of one, so after
\* the constructor's build no excluded term is a key of the index.
C17_ExcludedNeverIndexed ==
  [][(outcome'.op = "index" /\ calls' = calls + 1)
     => \A t \in outcome'.exclude :
          Entry(self'.index, t) = Entry(IF phase = "new" THEN <<>> ELSE self.index, t)]_vars

\* a build has skipped the excluded term b and indexed a
C17_Witness ==
  /\ BuiltOnce
  /\ outcome.op = "index"
  /\ outcome.exclude = {"b"}
  /\ \E pr \in expected : pr[2] = "a"
  /\ outcome.skipped >= 1
  /\ "a" \in Keys(self.index)
  /\ "b" \notin Keys(self.index)

\* C18: whenever a call of index() has ended, by returning or by raising,
\* the index is frozen: its indexing flag is false, and the lookup of a term
\* that is no key creates no entry.
C18_FrozenAfterIndex ==
  (phase = "live" /\ outcome.op = "index") =>
    /\ ~self.indexing
    /\ \A t \in QueryTerms \ Keys(self.index), g \in Garbage :
         query(self, t, NoTerm, g).self.index = self.index

\* the identifiers stored in the index: those of the documents indexed so
\* far with a token that was not excluded
StoredIds == {pr[1] : pr \in expected}

\* C19: the identifiers index() synthesizes when it is called without ids
\* in numeric mode are pairwise distinct and distinct from every identifier
\* already stored in the index, for any sequence of calls of index().
C19_SynthesizedIdsAreFresh ==
  [][(/\ outcome'.op = "index"
      /\ calls' = calls + 1
      /\ ~outcome'.ids.given
      /\ self'.numeric)
     => (/\ ~Repeats(outcome'.resolved)
         /\ Range(outcome'.resolved) \cap StoredIds = {})]_vars

\* C20: in index(filename), after any number of lines, every entry of
\* post_dict has a frequency equal to the length of its postings list, that
\* list holds no tweet id twice, and all_postings holds exactly one list per
\* term: the list object the entry of the term refers to.
C20_PostDictInvariant ==
  /\ \A t \in Keys(post_dict) :
       LET e == Get(post_dict, t)
       IN /\ e.token = t
          /\ e.freq = Len(heap[e.postings])
          /\ ~Repeats(heap[e.postings])
          /\ Cardinality({k \in 1..Len(all_postings) :
                             all_postings[k] = e.postings}) = 1
  /\ Len(all_postings) = Len(post_dict)
  /\ ~Repeats(all_postings)
  /\ \A k \in 1..Len(all_postings) :
       \E t \in Keys(post_dict) : Get(post_dict, t).postings = all_postings[k]

\* a term met again in the same tweet and in another one
C20_Witness ==
  /\ file.nlines = 2
  /\ file.status = "returned"
  /\ Len(post_dict) = 2
  /\ \E t \in Keys(post_dict) :
       /\ Get(post_dict, t).freq = 2
       /\ heap[Get(post_dict, t).postings] = <<12, 3>>
  /\ \E t \in Keys(post_dict) : Get(post_dict, t).freq = 1

====
